---- MODULE Spec2Model ----
(***************************************************************************)
(* Model of gptq/quant/fused_attention.py: make_quant_attn (the fusion     *)
(* pass over a module tree) and QuantLlamaAttention.forward (the fused     *)
(* attention operator with its key/value cache).                           *)
(*                                                                         *)
(* Tensors are modelled by their storage, shape and strides; their         *)
(* contents are symbolic (a column of a packed blob, the key vector of a   *)
(* token at a position), so that concatenation order, aliasing and cache   *)
(* growth are computed and not assumed.                                    *)
(***************************************************************************)
EXTENDS Integers, Sequences, FiniteSets, TLC

None == "None"

\* ------------------------------------------------------------------ bounds
NumLayers == 2      \* decoder layers of the "layers" tree shape
MaxOut == 2         \* largest output-feature count of a source projection
MaxBatch == 2       \* largest batch size of a session
MaxSeq == 2         \* largest seq_len of one forward call
MaxTokens == 3      \* most tokens a session feeds through its cache

\* ------------------------------------------------- QuantLinear (external)
\* Number of bits of one packed word of a weight blob.
PackWord == 32

\* Rows of the packed weight blob: infeatures values of `bits` bits each.
QWeightRows(bits, infeatures) == (infeatures * bits) \div PackWord

\* Rows of the zero-point and scale blobs: one per group of input features.
GroupRows(groupsize, infeatures) == (infeatures + groupsize - 1) \div groupsize

\* A blob is a 2-d tensor: a row count and its columns, left to right.  A
\* column's content is symbolic: (owner projection, blob kind, column index).
Blob(owner, what, rows, ncols) ==
    [rows |-> rows, cols |-> [j \in 1..ncols |-> <<owner, what, j>>]]

NoBlob == [rows |-> 0, cols |-> <<>>]
NoColumn == <<<<>>, "none", 0>>
NoConfig == [hidden_size |-> 0, num_attention_heads |-> 0, max_position_embeddings |-> 0]

\* QuantLinear as loaded from a checkpoint.
QuantLinear(id, p) ==
    [kind |-> "QuantLinear", children |-> <<>>, src |-> <<>>, config |-> NoConfig,
     bits |-> p.bits, groupsize |-> p.groupsize,
     infeatures |-> p.infeatures, outfeatures |-> p.outfeatures,
     qweight |-> Blob(id, "qweight", QWeightRows(p.bits, p.infeatures), p.outfeatures),
     qzeros |-> Blob(id, "qzeros", GroupRows(p.groupsize, p.infeatures), p.outfeatures),
     scales |-> Blob(id, "scales", GroupRows(p.groupsize, p.infeatures), p.outfeatures),
     bias |-> None]

\* QuantLinear.forward: output feature j is the input times the dequantized
\* column j, which is decided by column j of the three blobs and by the
\* layer's bit-width, group size and input-feature count.
QLForward(layer, x) ==
    [j \in 1..Len(layer.qweight.cols) |->
        [x |-> x, bits |-> layer.bits, groupsize |-> layer.groupsize,
         infeatures |-> layer.infeatures,
         w |-> layer.qweight.cols[j],
         z |-> IF j \in DOMAIN layer.qzeros.cols THEN layer.qzeros.cols[j] ELSE NoColumn,
         s |-> IF j \in DOMAIN layer.scales.cols THEN layer.scales.cols[j] ELSE NoColumn]]

\* ------------------------------------------------------------ module tree
\* Objects are identified by the path they were loaded at; a child key and a
\* module name are sequences of tokens, "." being the separator token.
Plain(kids) ==
    [kind |-> "Module", children |-> kids, src |-> <<>>, config |-> NoConfig,
     bits |-> 0, groupsize |-> 0, infeatures |-> 0, outfeatures |-> 0,
     qweight |-> NoBlob, qzeros |-> NoBlob, scales |-> NoBlob, bias |-> None]

Attr(mod, key) ==
    LET i == CHOOSE i \in DOMAIN mod.children : mod.children[i][1] = key
    IN mod.children[i][2]

HasAttr(mod, key) == \E i \in DOMAIN mod.children : mod.children[i][1] = key

\* LlamaAttention as loaded: five children and a config.
LlamaAttention(id, cfg) ==
    [Plain(<< <<<<"q_proj">>, id \o <<"q_proj">>>>,
              <<<<"k_proj">>, id \o <<"k_proj">>>>,
              <<<<"v_proj">>, id \o <<"v_proj">>>>,
              <<<<"o_proj">>, id \o <<"o_proj">>>>,
              <<<<"rotary_emb">>, id \o <<"rotary_emb">>>> >>)
       EXCEPT !.kind = "LlamaAttention", !.config = cfg]

\* The objects of one attention node: the node, its three quantized
\* projections (parameters c.q, c.k, c.v), its output projection and its
\* rotary provider (the pass reads neither's contents).
AttentionObjects(id, cfg, c) ==
    (id :> LlamaAttention(id, cfg))
    @@ ((id \o <<"q_proj">>) :> QuantLinear(id \o <<"q_proj">>, c.q))
    @@ ((id \o <<"k_proj">>) :> QuantLinear(id \o <<"k_proj">>, c.k))
    @@ ((id \o <<"v_proj">>) :> QuantLinear(id \o <<"v_proj">>, c.v))
    @@ ((id \o <<"o_proj">>) :> [Plain(<<>>) EXCEPT !.kind = "QuantLinear"])
    @@ ((id \o <<"rotary_emb">>) :> [Plain(<<>>) EXCEPT !.kind = "Rotary"])

\* ------------------------------------------------- QuantLlamaAttention.__init__
\* Raises ValueError when hidden_size is not divisible by the head count;
\* otherwise registers qkv_proj, o_proj and rotary_emb and keeps the config.
HeadDim(cfg) == cfg.hidden_size \div cfg.num_attention_heads

ConfigValid(cfg) == HeadDim(cfg) * cfg.num_attention_heads = cfg.hidden_size

QuantLlamaAttention(cfg, qkv_proj, o_proj, rotary_emb, m) ==
    [Plain(<< <<<<"qkv_proj">>, qkv_proj>>,
              <<<<"o_proj">>, o_proj>>,
              <<<<"rotary_emb">>, rotary_emb>> >>)
       EXCEPT !.kind = "QuantLlamaAttention", !.config = cfg, !.src = m]

\* ------------------------------------------------------------- torch.cat
\* torch.cat(tensors, dim=1) of 2-d tensors: every tensor must have the same
\* row count; the result holds the columns of the tensors, left to right.
CatOk(blobs) == \A i \in DOMAIN blobs : blobs[i].rows = blobs[1].rows

RECURSIVE CatCols(_)
CatCols(blobs) ==
    IF blobs = <<>> THEN <<>> ELSE Head(blobs).cols \o CatCols(Tail(blobs))

CatDim1(blobs) == [rows |-> blobs[1].rows, cols |-> CatCols(blobs)]

\* ------------------------------------------------ names and tree access
\* submodule_prefix = prefix + ('.' if prefix else '') + name
SubmodulePrefix(prefix, key) ==
    prefix \o (IF prefix # <<>> THEN <<".">> ELSE <<>>) \o key

HasDot(name) == \E i \in DOMAIN name : name[i] = "."

LastDot(name) == CHOOSE i \in DOMAIN name :
    name[i] = "." /\ \A j \in DOMAIN name : name[j] = "." => j <= i

\* name.rsplit('.', 1)[0]
RSplitHead(name) == SubSeq(name, 1, LastDot(name) - 1)

FirstDot(name) == CHOOSE i \in DOMAIN name :
    name[i] = "." /\ \A j \in DOMAIN name : name[j] = "." => j >= i

\* Module.get_submodule(target): "" is the module itself; otherwise follow
\* the atoms of target.split(".") from the module down.
RECURSIVE GetSubmodule(_, _, _)
GetSubmodule(mods, id, target) ==
    IF target = <<>> THEN id
    ELSE IF HasDot(target)
         THEN GetSubmodule(mods,
                           Attr(mods[id], SubSeq(target, 1, FirstDot(target) - 1)),
                           SubSeq(target, FirstDot(target) + 1, Len(target)))
         ELSE Attr(mods[id], target)

\* setattr(parent, child_name, module): Module.__setattr__ stores the module
\* in parent._modules[child_name]; an existing key keeps its place, a new key
\* is appended.  The key is not validated.
SetAttr(mod, key, id) ==
    IF HasAttr(mod, key)
    THEN [mod EXCEPT !.children =
            [i \in DOMAIN mod.children |->
                IF mod.children[i][1] = key THEN <<key, id>> ELSE mod.children[i]]]
    ELSE [mod EXCEPT !.children = Append(mod.children, <<key, id>>)]

\* ------------------------------------------------------- make_quant_attn
Root == <<>>

\* A slip in the order: key before query.
QKVOrderKeyFirst(q, k, v) == <<k, q, v>>

\* Lines 23-25: the three concatenations, in the order query, key, value.
QKVOrder(q, k, v) == <<q, k, v>>

\* Lines 27-31: the fused projection takes bit-width, group size and
\* input-feature count from q_proj alone.
FusedParams(q, k, v) ==
    [bits |-> q.bits, groupsize |-> q.groupsize, infeatures |-> q.infeatures,
     outfeatures |-> q.outfeatures + k.outfeatures + v.outfeatures]

FusedQKV(q, k, v) ==
    LET p == FusedParams(q, k, v)
        o == QKVOrder(q, k, v)
    IN [Plain(<<>>) EXCEPT
          !.kind = "QuantLinear",
          !.bits = p.bits, !.groupsize = p.groupsize,
          !.infeatures = p.infeatures, !.outfeatures = p.outfeatures,
          !.qweight = CatDim1(<<o[1].qweight, o[2].qweight, o[3].qweight>>),
          !.qzeros = CatDim1(<<o[1].qzeros, o[2].qzeros, o[3].qzeros>>),
          !.scales = CatDim1(<<o[1].scales, o[2].scales, o[3].scales>>),
          !.bias = None]

\* Lines 35-42: the parent's name and the child's key of a module name.
ParentName(name) == IF HasDot(name) THEN RSplitHead(name) ELSE <<>>

ChildName(name) ==
    IF HasDot(name) THEN SubSeq(name, Len(RSplitHead(name)) + 2, Len(name)) ELSE name

Raised(err, line, mods) == [raised |-> TRUE, error |-> err, line |-> line, modules |-> mods]

\* Lines 16-46: the loop body for one (name, m) of model.named_modules().
LoopBody(name, m, mods) ==
    IF mods[m].kind # "LlamaAttention"
    THEN [raised |-> FALSE, error |-> None, line |-> 17, modules |-> mods]
    ELSE
    LET q == mods[Attr(mods[m], <<"q_proj">>)]
        k == mods[Attr(mods[m], <<"k_proj">>)]
        v == mods[Attr(mods[m], <<"v_proj">>)]
        o == QKVOrder(q, k, v)
        qkvId == m \o <<"#qkv_layer">>
        attnId == m \o <<"#attn">>
        attn == QuantLlamaAttention(mods[m].config, qkvId,
                                    Attr(mods[m], <<"o_proj">>),
                                    Attr(mods[m], <<"rotary_emb">>), m)
        parent == IF HasDot(name) THEN GetSubmodule(mods, Root, ParentName(name))
                  ELSE Root
        withNew == (qkvId :> FusedQKV(q, k, v)) @@ (attnId :> attn) @@ mods
    IN IF ~CatOk(<<o[1].qweight, o[2].qweight, o[3].qweight>>)
       THEN Raised("RuntimeError", 23, mods)
       ELSE IF ~CatOk(<<o[1].qzeros, o[2].qzeros, o[3].qzeros>>)
       THEN Raised("RuntimeError", 24, mods)
       ELSE IF ~CatOk(<<o[1].scales, o[2].scales, o[3].scales>>)
       THEN Raised("RuntimeError", 25, mods)
       ELSE IF ~ConfigValid(mods[m].config)
       THEN Raised("ValueError", 33, mods)
       ELSE [raised |-> FALSE, error |-> None, line |-> 46,
             modules |-> [withNew EXCEPT
                            ![parent] = SetAttr(withNew[parent], ChildName(name), attnId)]]

\* Line 15: model.named_modules() is a generator over the live tree: a stack
\* of (module, prefix, next child) frames and the memo of modules already
\* yielded.  The loop body runs between two yields.
RECURSIVE NamedModulesLoop(_, _, _)
NamedModulesLoop(stack, memo, mods) ==
    IF stack = <<>>
    THEN [status |-> "fused", error |-> None, line |-> 46, modules |-> mods]
    ELSE
    LET top == stack[Len(stack)]
        kids == mods[top.id].children
        rest == SubSeq(stack, 1, Len(stack) - 1)
    IN IF top.idx > Len(kids) THEN NamedModulesLoop(rest, memo, mods)
       ELSE
       LET child == kids[top.idx][2]
           name == SubmodulePrefix(top.prefix, kids[top.idx][1])
           stack1 == Append(rest, [top EXCEPT !.idx = top.idx + 1])
       IN IF child \in memo THEN NamedModulesLoop(stack1, memo, mods)
          ELSE LET r == LoopBody(name, child, mods)
               IN IF r.raised
                  THEN [status |-> "failed", error |-> r.error, line |-> r.line,
                        modules |-> r.modules]
                  ELSE NamedModulesLoop(
                          Append(stack1, [id |-> child, prefix |-> name, idx |-> 1]),
                          memo \cup {child}, r.modules)

make_quant_attn(mods) ==
    LET r == LoopBody(<<>>, Root, mods)
    IN IF r.raised
       THEN [status |-> "failed", error |-> r.error, line |-> r.line, modules |-> r.modules]
       ELSE NamedModulesLoop(<<[id |-> Root, prefix |-> <<>>, idx |-> 1]>>,
                             {Root}, r.modules)

\* ------------------------------------------------------- checkpoints loaded
\* Quantization parameters a projection can be loaded with.  P0 and P1
\* disagree on all three parameters and yet have blobs of the same row
\* counts, and so do P0 and P4, which disagree on the group size alone; P2
\* differs from P0 in its group rows, P3 in its weight rows.
P0 == [bits |-> 4, groupsize |-> 64, infeatures |-> 64]
P1 == [bits |-> 8, groupsize |-> 32, infeatures |-> 32]
P2 == [bits |-> 4, groupsize |-> 32, infeatures |-> 64]
P3 == [bits |-> 4, groupsize |-> 32, infeatures |-> 32]
P4 == [bits |-> 4, groupsize |-> 128, infeatures |-> 64]

ProfileTriples ==
    {<<P0, P0, P0>>, <<P1, P1, P1>>, <<P0, P1, P0>>, <<P0, P0, P1>>,
     <<P0, P4, P0>>, <<P0, P2, P0>>, <<P0, P0, P3>>}

WidthTriples == {<<a, MaxOut, 1>> : a \in 1..MaxOut}

WithWidth(p, o) ==
    [bits |-> p.bits, groupsize |-> p.groupsize, infeatures |-> p.infeatures,
     outfeatures |-> o]

AttnChoices ==
    {[q |-> WithWidth(t[1], w[1]), k |-> WithWidth(t[2], w[2]),
      v |-> WithWidth(t[3], w[3])] : t \in ProfileTriples, w \in WidthTriples}

LlamaConfig == [hidden_size |-> 64, num_attention_heads |-> 2,
                max_position_embeddings |-> 2048]

LayerKey(i) == <<"0", "1", "2", "3", "4">>[i]

\* The model is itself one attention module.
TreeRootAttn(c) == AttentionObjects(Root, LlamaConfig, c)

\* An attention module and a norm as direct children of the root.
TreeDirect(c) ==
    (Root :> Plain(<< <<<<"attn">>, <<"attn">>>>, <<<<"norm">>, <<"norm">>>> >>))
    @@ AttentionObjects(<<"attn">>, LlamaConfig, c)
    @@ (<<"norm">> :> Plain(<<>>))

RECURSIVE LayerObjects(_, _)
LayerObjects(cs, i) ==
    IF i > Len(cs) THEN (<<"norm">> :> Plain(<<>>))
    ELSE LET l == <<"layers", LayerKey(i)>>
         IN (l :> Plain(<< <<<<"self_attn">>, l \o <<"self_attn">>>>,
                           <<<<"mlp">>, l \o <<"mlp">>>> >>))
            @@ AttentionObjects(l \o <<"self_attn">>, LlamaConfig, cs[i])
            @@ ((l \o <<"mlp">>) :> Plain(<<>>))
            @@ LayerObjects(cs, i + 1)

\* A decoder: root.layers.<i>.self_attn and .mlp, and root.norm.
TreeLayers(cs) ==
    (Root :> Plain(<< <<<<"layers">>, <<"layers">>>>, <<<<"norm">>, <<"norm">>>> >>))
    @@ (<<"layers">> :>
          Plain([i \in 1..Len(cs) |-> <<<<LayerKey(i)>>, <<"layers", LayerKey(i)>>>>]))
    @@ LayerObjects(cs, 1)

Trees ==
    {TreeRootAttn(c) : c \in AttnChoices}
    \cup {TreeDirect(c) : c \in AttnChoices}
    \cup {TreeLayers(cs) : cs \in [1..NumLayers -> AttnChoices]}

\* ------------------------------------------------------------------ state
VARIABLES
    loaded,     \* the module objects as loaded, before the pass
    modules,    \* the module objects now: id -> module
    pass        \* the fusion pass: status, error raised, line raising it

fusionVars == <<loaded, modules, pass>>

InitFusion ==
    /\ loaded \in Trees
    /\ modules = loaded
    /\ pass = [status |-> "loaded", error |-> None, line |-> 0]

\* make_quant_attn(model), once, at model-load time.
MakeQuantAttn ==
    /\ pass.status = "loaded"
    /\ LET r == make_quant_attn(modules)
       IN /\ modules' = r.modules
          /\ pass' = [status |-> r.status, error |-> r.error, line |-> r.line]
    /\ UNCHANGED loaded

\* ================================================================ tensors
\* A tensor is a view of a storage: the storage's id, a shape, one stride
\* per dimension and the offset of its first element.  A storage holds one
\* cell per (sequence position); a cell holds one symbolic vector per
\* hidden_size-wide slot (three for the fused projection's output).  The
\* tensors read are of shape (bsz, num_heads, length, head_dim).
Tensor(buf, shape, stride, off) ==
    [buf |-> buf, shape |-> shape, stride |-> stride, off |-> off]

NoTensor == Tensor(-1, <<>>, <<>>, 0)

RECURSIVE Prod(_)
Prod(s) == IF s = <<>> THEN 1 ELSE Head(s) * Prod(Tail(s))

\* Strides of a freshly allocated (row-major) tensor of this shape.
ContiguousStride(shape) ==
    [d \in DOMAIN shape |-> Prod(SubSeq(shape, d + 1, Len(shape)))]

\* Tensor.is_contiguous(): from the last dimension to the first, every
\* dimension of size other than 1 must have the row-major stride.
RECURSIVE ContiguousFrom(_, _, _, _)
ContiguousFrom(shape, stride, d, z) ==
    IF d = 0 THEN TRUE
    ELSE IF shape[d] = 1 THEN ContiguousFrom(shape, stride, d - 1, z)
    ELSE stride[d] = z /\ ContiguousFrom(shape, stride, d - 1, z * shape[d])

IsContiguous(t) == ContiguousFrom(t.shape, t.stride, Len(t.shape), 1)

\* A new storage gets an id no live storage has.
FreshId(store) ==
    CHOOSE i \in 0..Cardinality(DOMAIN store) :
        i \notin DOMAIN store /\ \A j \in 0..(i - 1) : j \in DOMAIN store

Alloc(store, cells) ==
    LET id == FreshId(store)
    IN [id |-> id, store |-> (id :> cells) @@ store]

\* The symbolic vectors a tensor shows, one per sequence position: slot
\* (offset / width of the viewed slot) of every cell of its storage.
Slot(t) == (t.off \div (t.shape[2] * t.shape[4])) + 1

Read(store, t) == [i \in DOMAIN store[t.buf] |-> store[t.buf][i][Slot(t)]]

\* torch.split(t, size, dim=2) of a 3-d tensor: chunk i is a view of the
\* same storage, `size` wide, starting size*(i-1) elements in.
SplitChunk(t, size, i) ==
    Tensor(t.buf, <<t.shape[1], t.shape[2], size>>, t.stride, t.off + size * (i - 1))

\* t.view(bsz, q_len, num_heads, head_dim) of a (bsz, q_len, hidden) tensor.
View4(t, nh, hd) ==
    Tensor(t.buf, <<t.shape[1], t.shape[2], nh, hd>>,
           <<t.stride[1], t.stride[2], hd * t.stride[3], t.stride[3]>>, t.off)

\* t.transpose(1, 2): a view with dimensions 1 and 2 (0-based) exchanged.
Transpose12(t) ==
    Tensor(t.buf, <<t.shape[1], t.shape[3], t.shape[2], t.shape[4]>>,
           <<t.stride[1], t.stride[3], t.stride[2], t.stride[4]>>, t.off)

\* t.contiguous(): the tensor itself when it is contiguous already, else a
\* copy in a storage of its own.
Contiguous(store, t) ==
    IF IsContiguous(t) THEN [t |-> t, store |-> store]
    ELSE LET a == Alloc(store, [i \in DOMAIN store[t.buf] |-> <<store[t.buf][i][Slot(t)]>>])
         IN [t |-> Tensor(a.id, t.shape, ContiguousStride(t.shape), 0), store |-> a.store]

\* torch.cat([a, b], dim=2) of 4-d tensors: the other dimensions must agree;
\* the result is a new tensor holding a's positions, then b's.
CatDim2Ok(a, b) ==
    a.shape[1] = b.shape[1] /\ a.shape[2] = b.shape[2] /\ a.shape[4] = b.shape[4]

CatDim2(store, a, b) ==
    LET shape == <<a.shape[1], a.shape[2], a.shape[3] + b.shape[3], a.shape[4]>>
        cells == [i \in 1..(a.shape[3] + b.shape[3]) |->
                    IF i <= a.shape[3] THEN <<Read(store, a)[i]>>
                    ELSE <<Read(store, b)[i - a.shape[3]]>>]
        n == Alloc(store, cells)
    IN [t |-> Tensor(n.id, shape, ContiguousStride(shape), 0), store |-> n.store]

\* ============================================ QuantLlamaAttention.forward
\* The symbolic vector of projection `proj` of a token; pos is the position
\* its rotary embedding was taken at, -1 while it is not rotated.
Raw(proj, tok) == [proj |-> proj, tok |-> tok, pos |-> -1]

NoPast == [present |-> FALSE, k |-> NoTensor, v |-> NoTensor]
NoMask == [given |-> FALSE, shape |-> <<>>, neg |-> {}]
NoOutput == [present |-> FALSE, shape |-> <<>>, data |-> <<>>]
NoWeights == [present |-> FALSE, shape |-> <<>>, rows |-> <<>>]

\* Line 92: self.qkv_proj(hidden_states), a new (bsz, q_len, 3*hidden_size)
\* tensor: per position the query, key and value slices, in that order.
QKVProj(store, hidden_states, H) ==
    LET cells == [i \in DOMAIN hidden_states.toks |->
                    <<Raw("q", hidden_states.toks[i]),
                      Raw("k", hidden_states.toks[i]),
                      Raw("v", hidden_states.toks[i])>>]
        a == Alloc(store, cells)
        shape == <<hidden_states.shape[1], hidden_states.shape[2], 3 * H>>
    IN [t |-> Tensor(a.id, shape, ContiguousStride(shape), 0), store |-> a.store]

\* Lines 102-103: the tables are kv_seq_len long; apply_rotary_pos_emb
\* takes the table rows at position_ids and returns new tensors, laid out
\* as its (transposed) inputs are.
RotaryOk(position_ids, kv_seq_len) ==
    \A i \in DOMAIN position_ids : position_ids[i] >= 0 /\ position_ids[i] < kv_seq_len

\* A slip: the row of the table is the index within the call.
RotaryPosInCall(position_ids, i) == i - 1

RotaryPos(position_ids, i) == position_ids[i]

ApplyRotary(store, t, position_ids) ==
    LET src == Read(store, t)
        a == Alloc(store, [i \in DOMAIN src |->
                             <<[src[i] EXCEPT !.pos = RotaryPos(position_ids, i)]>>])
    IN [t |-> Tensor(a.id, t.shape,
                     <<t.shape[3] * t.shape[2] * t.shape[4], t.shape[4],
                       t.shape[2] * t.shape[4], 1>>, 0),
        store |-> a.store]

\* A slip: the new positions are appended to the past tensor's own storage.
CatPastInPlace(store, past, new) ==
    LET cells == [i \in 1..(past.shape[3] + new.shape[3]) |->
                    IF i <= past.shape[3] THEN store[past.buf][i]
                    ELSE <<Read(store, new)[i - past.shape[3]]>> \o
                         [j \in 1..(Len(store[past.buf][1]) - 1) |->
                             Read(store, new)[i - past.shape[3]]]]
        shape == <<past.shape[1], past.shape[2], past.shape[3] + new.shape[3],
                   past.shape[4]>>
    IN [t |-> Tensor(past.buf, shape, ContiguousStride(shape), past.off),
        store |-> [store EXCEPT ![past.buf] = cells]]

\* Lines 106-109: the keys and values scored are the past cache's, then the
\* new ones.
CatPast(store, past, new) == CatDim2(store, past, new)

\* A slip: the owned copies are kept in buffers of the module, one each for
\* query, key and value, that every call writes again.
CacheOwnedByModule(store, t) ==
    LET vecs == Read(store, t)
        id == CASE vecs[1].proj = "q" -> 1001
                [] vecs[1].proj = "k" -> 1002
                [] OTHER -> 1003
    IN [t |-> Tensor(id, t.shape, ContiguousStride(t.shape), 0),
        store |-> (id :> [i \in DOMAIN vecs |-> <<vecs[i]>>])
                  @@ [x \in DOMAIN store \ {id} |-> store[x]]]

\* Lines 114-116: what is cached is t.contiguous().
CacheOwned(store, t) == Contiguous(store, t)

\* A slip: the cached length is left out of the shape required.
MaskShapeNoCache(bsz, q_len, kv_seq_len) == <<bsz, 1, q_len, q_len>>

\* Line 129: the shape the attention mask must have.
MaskShape(bsz, q_len, kv_seq_len) == <<bsz, 1, q_len, kv_seq_len>>

\* Lines 120-138 for one query position: the scores against every key, the
\* mask added and clamped at the dtype's minimum, the softmax and the
\* weighted sum of the values.  A masked score has weight 0 unless the whole
\* row is masked, where the weights are uniform.
AttnRow(q, ks, vs, masked) ==
    LET js == DOMAIN ks
        all == \A j \in js : masked[j]
    IN [q |-> q, uniform |-> all,
        kv |-> {<<ks[j], vs[j]>> : j \in {j \in js : all \/ ~masked[j]}}]

Failure(err, line, expected, actual, qkv, kv_seq_len, store) ==
    [status |-> err, line |-> line, expected |-> expected, actual |-> actual,
     attn_output |-> NoOutput, attn_weights |-> NoWeights,
     past_key_value |-> NoPast, qkv_states |-> qkv, kv_seq_len |-> kv_seq_len,
     store |-> store]

\* Lines 120-154, given the tensors scored and the storages after line 116.
Attend(self, st, hidden_states, attention_mask, output_attentions, use_cache, qkv_states, kv_seq_len, query_states, key_states, value_states) ==
    LET bsz == hidden_states.shape[1]
        q_len == hidden_states.shape[2]
        nh == self.num_heads
        hd == self.head_dim
        new_cache == IF use_cache                                       \* 118
                     THEN [present |-> TRUE, k |-> key_states, v |-> value_states]
                     ELSE NoPast
        wshape == <<bsz, nh, q_len, key_states.shape[3]>>               \* 120
        qs == Read(st, query_states)
        ks == Read(st, key_states)
        vs == Read(st, value_states)
        masked == [i \in 1..q_len |-> [j \in DOMAIN ks |->
                      attention_mask.given /\ <<i, j>> \in attention_mask.neg]]
        rows == [i \in 1..q_len |-> AttnRow(qs[i], ks, vs, masked[i])]  \* 133-138
        oshape == <<bsz, nh, q_len, value_states.shape[4]>>
    IN IF wshape # <<bsz, nh, q_len, kv_seq_len>>                       \* 122
       THEN Failure("ValueError", 123, <<bsz * nh, q_len, kv_seq_len>>, wshape,
                    qkv_states, kv_seq_len, st)
       ELSE IF attention_mask.given
               /\ attention_mask.shape # MaskShape(bsz, q_len, kv_seq_len) \* 129
       THEN Failure("ValueError", 130, <<bsz, 1, q_len, kv_seq_len>>,
                    attention_mask.shape, qkv_states, kv_seq_len, st)
       ELSE IF oshape # <<bsz, nh, q_len, hd>>                          \* 140
       THEN Failure("ValueError", 141, <<bsz, nh, q_len, hd>>, oshape,
                    qkv_states, kv_seq_len, st)
       ELSE [status |-> "ok", line |-> 154, expected |-> <<>>, actual |-> <<>>,
             attn_output |->                                            \* 146-149
                [present |-> TRUE, shape |-> <<bsz, q_len, self.hidden_size>>,
                 data |-> [i \in 1..q_len |-> [proj |-> self.o_proj, x |-> rows[i]]]],
             attn_weights |-> IF output_attentions                      \* 151
                              THEN [present |-> TRUE, shape |-> wshape, rows |-> rows]
                              ELSE NoWeights,
             past_key_value |-> new_cache,
             qkv_states |-> qkv_states, kv_seq_len |-> kv_seq_len, store |-> st]

Only(S) == CHOOSE x \in S : TRUE

\* A slip: the cached length is not added.
KvLenNoPast(q_len, past_key_value) == q_len

\* Lines 99-101: kv_seq_len is the new keys' length plus the cached length.
KvLen(q_len, past_key_value) ==
    q_len + (IF past_key_value.present THEN past_key_value.k.shape[3] ELSE 0)

\* Lines 90-118, then Attend.  Each statement's result is bound once, in
\* program order (the innermost binding is the last statement).
Forward(self, store, hidden_states, attention_mask, position_ids, past_key_value, output_attentions, use_cache) ==
    LET H == self.hidden_size
        nh == self.num_heads
        hd == self.head_dim
        Head4(qkv, i) == Transpose12(View4(SplitChunk(qkv, H, i), nh, hd))  \* 93-97
        KvSeqLen(qkv) == KvLen(qkv.shape[2], past_key_value)            \* 99-101
    IN
    Only({                                                              \* 92
      IF ~RotaryOk(position_ids, KvSeqLen(p.t))
      THEN Failure("IndexError", 103, <<>>, <<>>, p.t, KvSeqLen(p.t), p.store)
      ELSE
      Only({ Only({                                                     \* 103
        IF past_key_value.present /\
           ~(CatDim2Ok(past_key_value.k, rk.t) /\
             CatDim2Ok(past_key_value.v, Head4(p.t, 3)))
        THEN Failure("RuntimeError", 108, <<>>, <<>>, p.t, KvSeqLen(p.t), rk.store)
        ELSE
        Only({ Only({                                                   \* 106-109
          Only({ Only({ Only({                                          \* 111-116
            Attend(self, ov.store, hidden_states, attention_mask,
                   output_attentions, use_cache, p.t, KvSeqLen(p.t),
                   oq.t, ok.t, ov.t)
          : ov \in {IF use_cache THEN CacheOwned(ok.store, cv.t)
                    ELSE [t |-> cv.t, store |-> ok.store]} })
          : ok \in {IF use_cache THEN CacheOwned(oq.store, ck.t)
                    ELSE [t |-> ck.t, store |-> oq.store]} })
          : oq \in {IF use_cache THEN CacheOwned(cv.store, rq.t)
                    ELSE [t |-> rq.t, store |-> cv.store]} })
        : cv \in {IF past_key_value.present
                  THEN CatPast(ck.store, past_key_value.v, Head4(p.t, 3))
                  ELSE [t |-> Head4(p.t, 3), store |-> ck.store]} })
        : ck \in {IF past_key_value.present
                  THEN CatPast(rk.store, past_key_value.k, rk.t)
                  ELSE [t |-> rk.t, store |-> rk.store]} })
      : rk \in {ApplyRotary(rq.store, Head4(p.t, 2), position_ids)} })
      : rq \in {ApplyRotary(p.store, Head4(p.t, 1), position_ids)} })
    : p \in {QKVProj(store, hidden_states, H)} })

\* -------------------------------------------------------- forward: state
\* Lines 62-75: what __init__ leaves in the module.
FusedAttention(cfg) ==
    [config |-> cfg, hidden_size |-> cfg.hidden_size,
     num_heads |-> cfg.num_attention_heads, head_dim |-> HeadDim(cfg),
     max_position_embeddings |-> cfg.max_position_embeddings,
     qkv_proj |-> "qkv_proj", o_proj |-> "o_proj", rotary_emb |-> "rotary_emb"]

Configs ==
    {[hidden_size |-> h, num_attention_heads |-> n, max_position_embeddings |-> 2048] :
        h \in {2, 4}, n \in {1, 2}}

Sessions == {"A", "B"}

VARIABLES
    attn,       \* the fused attention module (self)
    sess,       \* per session: batch size, cache entry held, tokens fed and
                \* calls made through it, their outputs, whether all were causal
    store,      \* the live tensor storages: id -> cells
    last        \* the most recent forward call: its inputs and what it returned

vars == <<loaded, modules, pass, attn, sess, store, last>>
forwardVars == <<attn, sess, store, last>>

NewSession(bsz) ==
    [bsz |-> bsz, cache |-> NoPast, fed |-> 0, calls |-> 0, outs |-> <<>>,
     causal |-> TRUE]

NoCall ==
    [s |-> "none", bsz |-> 0, q_len |-> 0, mask |-> NoMask,
     output_attentions |-> FALSE, use_cache |-> FALSE,
     past |-> NoPast, past_k_cells |-> <<>>, past_v_cells |-> <<>>, from |-> 0,
     status |-> "none", line |-> 0, expected |-> <<>>, actual |-> <<>>,
     attn_output |-> NoOutput, attn_weights |-> NoWeights,
     past_key_value |-> NoPast, qkv_states |-> NoTensor, kv_seq_len |-> 0]

\* The masks a caller may pass for a call of q_len positions after `past`
\* cached ones: none, all-zero or causal of the right shape, or causal of a
\* shape that is not the shape required.
CausalNeg(q_len, past) ==
    {<<i, j>> : i \in 1..q_len, j \in 1..(past + q_len)} \cap
    {x \in (1..q_len) \X (1..(past + q_len)) : x[2] > past + x[1]}

MaskShapes(bsz, q_len, past) ==
    {<<bsz, 1, q_len, past + q_len>>, <<bsz, 1, q_len, q_len>>,
     <<bsz, 1, q_len, past + q_len + 1>>, <<1, 1, q_len, past + q_len>>,
     <<bsz, q_len, past + q_len>>}

Masks(bsz, q_len, past) ==
    {NoMask, [given |-> TRUE, shape |-> <<bsz, 1, q_len, past + q_len>>, neg |-> {}]}
    \cup {[given |-> TRUE, shape |-> sh, neg |-> CausalNeg(q_len, past)] :
            sh \in MaskShapes(bsz, q_len, past)}

HiddenStates(s, bsz, H, from, q_len) ==
    [shape |-> <<bsz, q_len, H>>, toks |-> [i \in 1..q_len |-> <<s, from + i>>]]

PositionIds(from, q_len) == [i \in 1..q_len |-> from + i - 1]

Bufs(c) == IF c.present THEN {c.k.buf, c.v.buf} ELSE {}

Live(ss, l) ==
    UNION {Bufs(ss[s].cache) : s \in Sessions}
    \cup Bufs(l.past) \cup Bufs(l.past_key_value) \cup {l.qkv_states.buf}

Restrict(f, S) == [x \in (DOMAIN f) \cap S |-> f[x]]

InitForward ==
    /\ attn \in {FusedAttention(cfg) : cfg \in {c \in Configs : ConfigValid(c)}}
    /\ sess \in [Sessions -> {NewSession(b) : b \in 1..MaxBatch}]
    /\ store = <<>>
    /\ last = NoCall

\* One forward call of session s (lines 80-154): the caller passes its next
\* q_len tokens, their positions and the cache entry it holds; what the call
\* returns or raises is in `last` until the caller takes it.
Call(s, q_len, mask, output_attentions, use_cache) ==
    LET me == sess[s]
        past == IF me.cache.present THEN me.cache.k.shape[3] ELSE 0
        Taken(r) ==
            [s |-> s, bsz |-> me.bsz, q_len |-> q_len, mask |-> mask,
             output_attentions |-> output_attentions, use_cache |-> use_cache,
             past |-> me.cache,
             past_k_cells |-> IF me.cache.present THEN store[me.cache.k.buf] ELSE <<>>,
             past_v_cells |-> IF me.cache.present THEN store[me.cache.v.buf] ELSE <<>>,
             from |-> me.fed,
             status |-> r.status, line |-> r.line,
             expected |-> r.expected, actual |-> r.actual,
             attn_output |-> r.attn_output, attn_weights |-> r.attn_weights,
             past_key_value |-> r.past_key_value,
             qkv_states |-> r.qkv_states, kv_seq_len |-> r.kv_seq_len]
    IN /\ last.status = "none"
       /\ me.fed + q_len <= MaxTokens
       /\ mask \in Masks(me.bsz, q_len, past)
       /\ \E r \in {Forward(attn, store,
                            HiddenStates(s, me.bsz, attn.hidden_size, me.fed, q_len),
                            mask, PositionIds(me.fed, q_len), me.cache,
                            output_attentions, use_cache)} :
             \E l \in {Taken(r)} :
                /\ last' = l
                /\ store' = Restrict(r.store, Live(sess, l))
       /\ UNCHANGED <<attn, sess>>

\* The caller takes what the call returned: after a successful cache-enabled
\* call it keeps the returned cache entry in place of the one it passed and
\* records the outputs; otherwise its session is as before the call.
Return(s) ==
    /\ last.s = s
    /\ sess' = IF last.status = "ok" /\ last.use_cache
               THEN [sess EXCEPT ![s] =
                      [bsz |-> sess[s].bsz, cache |-> last.past_key_value,
                       fed |-> sess[s].fed + last.q_len,
                       calls |-> sess[s].calls + 1,
                       outs |-> sess[s].outs \o last.attn_output.data,
                       causal |-> sess[s].causal /\
                           last.mask.neg = CausalNeg(last.q_len,
                                                     last.kv_seq_len - last.q_len)]]
               ELSE sess
    /\ last' = NoCall
    /\ store' = Restrict(store, Live(sess', NoCall))
    /\ UNCHANGED attn

\* The session ends: its cache entry is dropped with it.
EndSession(s) ==
    /\ last.status = "none"
    /\ sess[s].fed > 0
    /\ sess' = [sess EXCEPT ![s] = NewSession(sess[s].bsz)]
    /\ store' = Restrict(store, Live(sess', last))
    /\ UNCHANGED <<attn, last>>

NoFusion ==
    /\ loaded = (Root :> Plain(<<>>)) /\ modules = loaded
    /\ pass = [status |-> "none", error |-> None, line |-> 0]

Init == InitForward /\ NoFusion

PastLen(s) == IF sess[s].cache.present THEN sess[s].cache.k.shape[3] ELSE 0

\* One session alone, with every mask a caller may pass.
Next ==
    \/ \E q_len \in 1..MaxSeq, output_attentions, use_cache \in BOOLEAN :
          \E mask \in Masks(sess["A"].bsz, q_len, PastLen("A")) :
             Call("A", q_len, mask, output_attentions, use_cache) /\ UNCHANGED fusionVars
    \/ Return("A") /\ UNCHANGED fusionVars
    \/ EndSession("A") /\ UNCHANGED fusionVars

Spec == Init /\ [][Next]_vars

\* Two sessions whose calls interleave in any order, each with causal masks.
NextSessions ==
    \/ \E s \in Sessions, q_len \in 1..MaxSeq, use_cache \in BOOLEAN :
          Call(s, q_len,
               [given |-> TRUE, shape |-> <<sess[s].bsz, 1, q_len, PastLen(s) + q_len>>,
                neg |-> CausalNeg(q_len, PastLen(s))],
               FALSE, use_cache) /\ UNCHANGED fusionVars
    \/ \E s \in Sessions : Return(s) /\ UNCHANGED fusionVars
    \/ \E s \in Sessions : EndSession(s) /\ UNCHANGED fusionVars

SpecSessions == Init /\ [][NextSessions]_vars

NoForward ==
    /\ attn = FusedAttention(LlamaConfig)
    /\ sess = [s \in Sessions |-> NewSession(1)]
    /\ store = <<>>
    /\ last = NoCall

InitLoad == InitFusion /\ NoForward

NextFusion == MakeQuantAttn /\ UNCHANGED forwardVars

SpecFusion == InitLoad /\ [][NextFusion]_vars

\* ============================================================ fusion pass
Inputs == {"x1", "x2"}

Agree(q, k, v) ==
    /\ q.bits = k.bits /\ k.bits = v.bits
    /\ q.groupsize = k.groupsize /\ k.groupsize = v.groupsize
    /\ q.infeatures = k.infeatures /\ k.infeatures = v.infeatures

LoadedAttention == {m \in DOMAIN loaded : loaded[m].kind = "LlamaAttention"}

FusedNodes == {id \in DOMAIN modules : modules[id].kind = "QuantLlamaAttention"}

\* The projection `key` of the attention node that fused node id was built from.
Source(id, key) == loaded[Attr(loaded[modules[id].src], <<key>>)]

FusedProjection(id) == modules[Attr(modules[id], <<"qkv_proj">>)]

\* C1: a fused projection built from q/k/v projections that agree on
\* bit-width, group size and input-feature count has output-feature count
\* o1+o2+o3, has as weight, zero-point and scale blobs the column-wise
\* concatenation of the sources' in the order query, key, value, has no
\* bias, and on every input gives the concatenation of the three sources'
\* outputs in that order; a pass that succeeds builds one for every
\* attention node.
C1_FusedIsConcatenation ==
    /\ \A id \in FusedNodes :
          LET q == Source(id, "q_proj")
              k == Source(id, "k_proj")
              v == Source(id, "v_proj")
              f == FusedProjection(id)
          IN Agree(q, k, v) =>
               /\ f.kind = "QuantLinear"
               /\ f.bits = q.bits /\ f.groupsize = q.groupsize
               /\ f.infeatures = q.infeatures
               /\ f.outfeatures = q.outfeatures + k.outfeatures + v.outfeatures
               /\ f.qweight.cols = q.qweight.cols \o k.qweight.cols \o v.qweight.cols
               /\ f.qzeros.cols = q.qzeros.cols \o k.qzeros.cols \o v.qzeros.cols
               /\ f.scales.cols = q.scales.cols \o k.scales.cols \o v.scales.cols
               /\ Len(f.qweight.cols) = f.outfeatures
               /\ f.bias = None
               /\ \A x \in Inputs :
                     QLForward(f, x) =
                        QLForward(q, x) \o QLForward(k, x) \o QLForward(v, x)
    /\ pass.status = "fused" =>
          \A m \in LoadedAttention : \E id \in FusedNodes : modules[id].src = m

C1_Witness ==
    /\ pass.status = "fused"
    /\ \E id \in FusedNodes :
          /\ Agree(Source(id, "q_proj"), Source(id, "k_proj"), Source(id, "v_proj"))
          /\ Source(id, "q_proj").outfeatures # Source(id, "k_proj").outfeatures
          /\ FusedProjection(id).outfeatures = MaxOut + 2

\* C2: when the q, k and v projections of an attention node do not share
\* bit-width, group size and input-feature count, the pass fails with
\* FusionMismatch, and no fused projection is built from projections that
\* disagree.
C2_MismatchFails ==
    pass.status # "loaded" =>
       /\ (\E m \in LoadedAttention :
              ~Agree(loaded[Attr(loaded[m], <<"q_proj">>)],
                     loaded[Attr(loaded[m], <<"k_proj">>)],
                     loaded[Attr(loaded[m], <<"v_proj">>)]))
          => pass.status = "failed" /\ pass.error = "FusionMismatch"
       /\ \A id \in FusedNodes :
             Agree(Source(id, "q_proj"), Source(id, "k_proj"), Source(id, "v_proj"))

\* C3: a pass that fails on some attention node leaves the module tree as
\* it was: every module has the children it was loaded with.
C3_AllOrNothing ==
    pass.status = "failed" => \A m \in DOMAIN loaded : modules[m] = loaded[m]

\* C4: after a pass that succeeds, every attention node is replaced, under
\* the same parent and child key, by a fused attention module that wraps
\* the node's own output projection, rotary provider and config, and every
\* other parent/child reference is as it was.
IsReplacement(id, m) ==
    /\ id \in FusedNodes
    /\ modules[id].src = m
    /\ modules[id].config = loaded[m].config
    /\ Attr(modules[id], <<"o_proj">>) = Attr(loaded[m], <<"o_proj">>)
    /\ Attr(modules[id], <<"rotary_emb">>) = Attr(loaded[m], <<"rotary_emb">>)
    /\ modules[Attr(modules[id], <<"o_proj">>)] = loaded[Attr(loaded[m], <<"o_proj">>)]

C4_ReplacedInPlace ==
    pass.status = "fused" =>
       /\ \A m \in LoadedAttention :
             \E parent \in DOMAIN loaded : \E i \in DOMAIN loaded[parent].children :
                /\ loaded[parent].children[i][2] = m
                /\ i \in DOMAIN modules[parent].children
                /\ modules[parent].children[i][1] = loaded[parent].children[i][1]
                /\ IsReplacement(modules[parent].children[i][2], m)
       /\ \A parent \in DOMAIN loaded :
             /\ Len(modules[parent].children) = Len(loaded[parent].children)
             /\ \A i \in DOMAIN loaded[parent].children :
                   loaded[parent].children[i][2] \notin LoadedAttention
                      => modules[parent].children[i] = loaded[parent].children[i]

\* ========================================================== forward calls
CachedLen(c) == IF c.present THEN c.k.shape[3] ELSE 0

\* The key and value vectors of the first n tokens of session s, each key
\* rotated at its own position.
OwnKeys(s, n) == [i \in 1..n |-> [proj |-> "k", tok |-> <<s, i>>, pos |-> i - 1]]
OwnValues(s, n) == [i \in 1..n |-> [proj |-> "v", tok |-> <<s, i>>, pos |-> -1]]

\* All the tokens of session s at once: one call, no past cache, causal mask.
FullCall(s) ==
    Forward(attn, <<>>,
            HiddenStates(s, sess[s].bsz, attn.hidden_size, 0, sess[s].fed),
            [given |-> TRUE, shape |-> <<sess[s].bsz, 1, sess[s].fed, sess[s].fed>>,
             neg |-> CausalNeg(sess[s].fed, 0)],
            PositionIds(0, sess[s].fed), NoPast, FALSE, FALSE)

\* C5: the outputs of successive cache-enabled calls, each given the cache
\* the previous one returned and each causally masked, are token for token
\* the outputs of one call over all the tokens with no past cache and a
\* causal mask; a seq_len=1 call after one cached position has
\* total_kv_len 2.
C5_CacheEquivalence ==
    /\ \A s \in Sessions :
          sess[s].fed > 0 /\ sess[s].causal =>
             /\ FullCall(s).status = "ok"
             /\ sess[s].outs = FullCall(s).attn_output.data
    /\ last.status = "ok" /\ last.q_len = 1 /\ CachedLen(last.past) = 1
          => last.kv_seq_len = 2

C5_Witness ==
    /\ sess["A"].calls = 2 /\ sess["A"].fed = 2 /\ sess["A"].causal
    /\ last.status = "none"
    /\ Len(sess["A"].outs) = 2

\* C6: after a cache-enabled call, neither the cached keys nor the cached
\* values returned share storage with the fused projection's output of
\* that call.
C6_IndependentStorage ==
    last.status = "ok" /\ last.use_cache =>
       /\ last.past_key_value.k.buf # last.qkv_states.buf
       /\ last.past_key_value.v.buf # last.qkv_states.buf

\* C7: the cached keys and values have the same cached_length; a call's
\* total_kv_len is its seq_len plus the cached_length of the past cache (0
\* without one); the cache a call returns has cached_length total_kv_len,
\* the sum of the seq_len of the calls so far.
C7_CachedLength ==
    /\ \A s \in Sessions :
          /\ sess[s].cache.present <=> sess[s].fed > 0
          /\ sess[s].cache.present =>
                /\ sess[s].cache.k.shape[3] = sess[s].fed
                /\ sess[s].cache.v.shape[3] = sess[s].fed
                /\ Len(store[sess[s].cache.k.buf]) = sess[s].fed
                /\ Len(store[sess[s].cache.v.buf]) = sess[s].fed
    /\ last.status # "none" =>
          last.kv_seq_len = last.q_len + CachedLen(last.past)
    /\ last.status = "ok" /\ last.use_cache =>
          /\ last.past_key_value.k.shape[3] = last.kv_seq_len
          /\ last.past_key_value.v.shape[3] = last.kv_seq_len
          /\ last.kv_seq_len = sess[last.s].fed + last.q_len

C7_Witness ==
    /\ last.status = "ok" /\ last.use_cache
    /\ sess[last.s].calls = 2
    /\ last.q_len = MaxSeq - 1
    /\ last.kv_seq_len = MaxTokens

\* C8: with two sessions' calls interleaved, each passing its own cache
\* entry, the module is as it was built, every cache entry holds its own
\* session's keys and values and nothing else, whoever called last, and
\* every session's outputs are those of its own tokens alone.
C8_NoInterference ==
    /\ attn = FusedAttention(attn.config)
    /\ \A s \in Sessions :
          /\ sess[s].cache.present =>
                /\ Read(store, sess[s].cache.k) = OwnKeys(s, sess[s].fed)
                /\ Read(store, sess[s].cache.v) = OwnValues(s, sess[s].fed)
          /\ sess[s].fed > 0 => sess[s].outs = FullCall(s).attn_output.data
    /\ last.status = "ok" /\ last.use_cache =>
          /\ Read(store, last.past_key_value.k) = OwnKeys(last.s, last.kv_seq_len)
          /\ Read(store, last.past_key_value.v) = OwnValues(last.s, last.kv_seq_len)

C8_Witness ==
    /\ last.s = "A" /\ last.status = "ok" /\ last.use_cache
    /\ sess["A"].calls = 1 /\ sess["B"].calls = 2
    /\ sess["B"].fed = MaxTokens
    /\ \E id \in DOMAIN store : id > sess["B"].cache.k.buf /\ id = sess["A"].cache.v.buf

\* C9: a call given an attention mask whose shape is not (batch, 1,
\* seq_len, total_kv_len), total_kv_len counting the past cache, fails
\* with the shape-mismatch ValueError naming the expected and the actual
\* shape, and returns no output, no weights and no cache.
C9_MaskShapeMismatch ==
    /\ last.status # "none"
    /\ last.mask.given
    /\ last.mask.shape # <<last.bsz, 1, last.q_len, last.q_len + CachedLen(last.past)>>
    => /\ last.status = "ValueError" /\ last.line = 130
       /\ last.expected = <<last.bsz, 1, last.q_len, last.q_len + CachedLen(last.past)>>
       /\ last.actual = last.mask.shape
       /\ ~last.attn_output.present
       /\ ~last.attn_weights.present
       /\ ~last.past_key_value.present

C9_Witness ==
    /\ last.status = "ValueError"
    /\ last.past.present
    /\ last.use_cache
    /\ last.mask.shape = <<last.bsz, 1, last.q_len, last.q_len>>

\* C10: the cache a call returns holds the past cache's keys (values),
\* unchanged and in order, then the call's seq_len new ones; the cache
\* entry the caller passed is as it was, whether the call succeeded or
\* failed.
C10_AppendOnly ==
    /\ last.status = "ok" /\ last.use_cache /\ last.past.present =>
          LET n == CachedLen(last.past)
              ks == Read(store, last.past_key_value.k)
              vs == Read(store, last.past_key_value.v)
          IN /\ Len(ks) = n + last.q_len /\ Len(vs) = n + last.q_len
             /\ SubSeq(ks, 1, n) = [i \in 1..n |-> last.past_k_cells[i][Slot(last.past.k)]]
             /\ SubSeq(vs, 1, n) = [i \in 1..n |-> last.past_v_cells[i][Slot(last.past.v)]]
             /\ SubSeq(ks, n + 1, n + last.q_len) =
                   [i \in 1..last.q_len |->
                      [proj |-> "k", tok |-> <<last.s, last.from + i>>,
                       pos |-> last.from + i - 1]]
             /\ SubSeq(vs, n + 1, n + last.q_len) =
                   [i \in 1..last.q_len |->
                      [proj |-> "v", tok |-> <<last.s, last.from + i>>, pos |-> -1]]
    /\ last.status # "none" /\ last.past.present =>
          /\ sess[last.s].cache = last.past
          /\ store[last.past.k.buf] = last.past_k_cells
          /\ store[last.past.v.buf] = last.past_v_cells

C10_Witness ==
    /\ last.status = "ok" /\ last.use_cache /\ last.past.present
    /\ last.q_len = MaxSeq
    /\ CachedLen(last.past) = 1

====
